---- MODULE Spec2Model ----
(***************************************************************************)
(* Verification model of the schema Options merge (src/config/schema.rs)   *)
(* and of the OpenTelemetry logs source as exercised by                    *)
(* src/sources/opentelemetry/tests.rs.                                     *)
(***************************************************************************)
EXTENDS Integers, Sequences, FiniteSets, TLC

(* ---------------------------------------------------------------------- *)
(* Bounds                                                                  *)
(* ---------------------------------------------------------------------- *)

\* Number of append calls made on one accumulator.
MaxInputs == 2

\* Log records of one export request, over all its groups.
MaxLogRecords == 2

(* ---------------------------------------------------------------------- *)
(* Option<bool> and Options (schema.rs:6-16)                               *)
(* ---------------------------------------------------------------------- *)

\* Option<T> is a sequence of length at most one.
None == <<>>

Some(x) == <<x>>

is_some(o) == o # None

\* struct Options { enabled, validation, log_namespace: Option<bool> }
Options == [enabled : BOOLEAN, validation : BOOLEAN,
            log_namespace : {None, Some(TRUE), Some(FALSE)}]

default_enabled == FALSE

default_validation == FALSE

\* impl Default for Options
Default == [enabled |-> default_enabled, validation |-> default_validation,
            log_namespace |-> None]

\* enum LogNamespace, as printed by {:?}
LogNamespace == {"Legacy", "Vector"}

\* use_vector_namespace.into(): the flag selects the Vector namespace.
bool_into_LogNamespace(use_vector_namespace) ==
    IF use_vector_namespace THEN "Vector" ELSE "Legacy"

\* Mutant: an unset log_namespace resolves to the Vector namespace.
log_namespace_default_vector(self) ==
    IF self.log_namespace = None
    THEN "Vector"
    ELSE bool_into_LogNamespace(self.log_namespace[1])

\* Options::log_namespace(self) -> LogNamespace
log_namespace(self) ==
    IF self.log_namespace = None
    THEN "Legacy"
    ELSE bool_into_LogNamespace(self.log_namespace[1])

\* format!("conflicting values ... Both {:?} and {:?} used in the same
\* component", a, b): the literal pieces and the two arguments, in order.
conflict_message(a, b) ==
    << "conflicting values for 'log_namespace' found. Both ", a,
       " and ", b, " used in the same component" >>

(* ---------------------------------------------------------------------- *)
(* Mutants of append                                                       *)
(* ---------------------------------------------------------------------- *)

\* Mutant: on a conflict the accumulator keeps its own log_namespace.
append_keep_on_conflict(self, with, errors) ==
    LET conflict == /\ is_some(self.log_namespace)
                    /\ is_some(with.log_namespace)
                    /\ self.log_namespace # with.log_namespace
    IN [self |-> [enabled |-> self.enabled \/ with.enabled,
                  validation |-> self.validation \/ with.validation,
                  log_namespace |->
                      IF is_some(with.log_namespace) /\ ~conflict
                      THEN with.log_namespace ELSE self.log_namespace],
        errors |-> IF conflict
                   THEN Append(errors, conflict_message(log_namespace(self),
                                                        log_namespace(with)))
                   ELSE errors]

\* Mutant: the value of the other side is never adopted.
append_no_adopt(self, with, errors) ==
    LET conflict == /\ is_some(self.log_namespace)
                    /\ is_some(with.log_namespace)
                    /\ self.log_namespace # with.log_namespace
    IN [self |-> [enabled |-> self.enabled \/ with.enabled,
                  validation |-> self.validation \/ with.validation,
                  log_namespace |-> self.log_namespace],
        errors |-> IF conflict
                   THEN Append(errors, conflict_message(log_namespace(self),
                                                        log_namespace(with)))
                   ELSE errors]

\* Mutant: the flags are merged with AND instead of OR.
append_and_flags(self, with, errors) ==
    LET conflict == /\ is_some(self.log_namespace)
                    /\ is_some(with.log_namespace)
                    /\ self.log_namespace # with.log_namespace
    IN [self |-> [enabled |-> self.enabled /\ with.enabled,
                  validation |-> self.validation /\ with.validation,
                  log_namespace |->
                      IF is_some(with.log_namespace)
                      THEN with.log_namespace ELSE self.log_namespace],
        errors |-> IF conflict
                   THEN Append(errors, conflict_message(log_namespace(self),
                                                        log_namespace(with)))
                   ELSE errors]

\* Mutant: the flags of the other side overwrite those of the accumulator.
append_assign_flags(self, with, errors) ==
    LET conflict == /\ is_some(self.log_namespace)
                    /\ is_some(with.log_namespace)
                    /\ self.log_namespace # with.log_namespace
    IN [self |-> [enabled |-> with.enabled,
                  validation |-> with.validation,
                  log_namespace |->
                      IF is_some(with.log_namespace)
                      THEN with.log_namespace ELSE self.log_namespace],
        errors |-> IF conflict
                   THEN Append(errors, conflict_message(log_namespace(self),
                                                        log_namespace(with)))
                   ELSE errors]

\* Mutant: a conflict replaces the error list instead of extending it.
append_reset_errors(self, with, errors) ==
    LET conflict == /\ is_some(self.log_namespace)
                    /\ is_some(with.log_namespace)
                    /\ self.log_namespace # with.log_namespace
    IN [self |-> [enabled |-> self.enabled \/ with.enabled,
                  validation |-> self.validation \/ with.validation,
                  log_namespace |->
                      IF is_some(with.log_namespace)
                      THEN with.log_namespace ELSE self.log_namespace],
        errors |-> IF conflict
                   THEN << conflict_message(log_namespace(self),
                                            log_namespace(with)) >>
                   ELSE errors]

\* Mutant: the message is formatted after the other side's value is adopted.
append_format_after_adopt(self, with, errors) ==
    LET conflict == /\ is_some(self.log_namespace)
                    /\ is_some(with.log_namespace)
                    /\ self.log_namespace # with.log_namespace
        merged == [enabled |-> self.enabled \/ with.enabled,
                   validation |-> self.validation \/ with.validation,
                   log_namespace |->
                       IF is_some(with.log_namespace)
                       THEN with.log_namespace ELSE self.log_namespace]
    IN [self |-> merged,
        errors |-> IF conflict
                   THEN Append(errors, conflict_message(log_namespace(merged),
                                                        log_namespace(with)))
                   ELSE errors]

\* Mutant: only a conflict against Some(true) on the left is reported.
append_one_sided_check(self, with, errors) ==
    LET conflict == /\ self.log_namespace = Some(TRUE)
                    /\ is_some(with.log_namespace)
                    /\ self.log_namespace # with.log_namespace
    IN [self |-> [enabled |-> self.enabled \/ with.enabled,
                  validation |-> self.validation \/ with.validation,
                  log_namespace |->
                      IF is_some(with.log_namespace)
                      THEN with.log_namespace ELSE self.log_namespace],
        errors |-> IF conflict
                   THEN Append(errors, conflict_message(log_namespace(self),
                                                        log_namespace(with)))
                   ELSE errors]

(* ---------------------------------------------------------------------- *)
(* Options::append (schema.rs:28-45)                                       *)
(* ---------------------------------------------------------------------- *)

\* append(&mut self, with, errors): the value of self and of errors after
\* the call.  The message is pushed (lines 29-37) before log_namespace is
\* assigned (lines 38-40), then the two flags are OR-ed (lines 43-44).
append(self, with, errors) ==
    LET conflict == /\ is_some(self.log_namespace)
                    /\ is_some(with.log_namespace)
                    /\ self.log_namespace # with.log_namespace
        errors1 == IF conflict
                   THEN Append(errors, conflict_message(log_namespace(self),
                                                        log_namespace(with)))
                   ELSE errors
        self1 == IF is_some(with.log_namespace)
                 THEN [self EXCEPT !.log_namespace = Some(with.log_namespace[1])]
                 ELSE self
        self2 == [self1 EXCEPT !.enabled = self1.enabled \/ with.enabled]
        self3 == [self2 EXCEPT !.validation = self2.validation \/ with.validation]
    IN [self |-> self3, errors |-> errors1]

(* ---------------------------------------------------------------------- *)
(* OpenTelemetry logs source (sources/opentelemetry/tests.rs)              *)
(* ---------------------------------------------------------------------- *)

HexLower == "0123456789abcdef"

HexUpper == "0123456789ABCDEF"

\* Value of one hexadecimal digit, either case (hex::decode).
hex_val(c) ==
    CHOOSE d \in 0..15 :
        c = SubSeq(HexLower, d + 1, d + 1) \/ c = SubSeq(HexUpper, d + 1, d + 1)

RECURSIVE str_into_hex_bytes(_)
\* hex::decode(s).unwrap(): two digits per byte, high nibble first.
str_into_hex_bytes(s) ==
    IF Len(s) = 0 THEN << >>
    ELSE << 16 * hex_val(SubSeq(s, 1, 1)) + hex_val(SubSeq(s, 2, 2)) >>
         \o str_into_hex_bytes(SubSeq(s, 3, Len(s)))

\* Utc.timestamp_nanos(n): the instant n nanoseconds after the epoch.
timestamp_nanos(n) == [secs |-> n \div 1000000000, nsecs |-> n % 1000000000]

\* One KeyValue { key, value: StringValue }.
KeyValue(k, v) == [key |-> k, value |-> v]

\* vec_into_btmap: the map holding the pairs of arr (a later pair wins).
vec_into_btmap(arr) ==
    [k \in { arr[i].key : i \in 1..Len(arr) } |->
        arr[CHOOSE i \in 1..Len(arr) :
                /\ arr[i].key = k
                /\ \A j \in (i + 1)..Len(arr) : arr[j].key # k].value]

\* The LogRecord of receive_grpc_logs.
TestLogRecord ==
    [time_unix_nano |-> 1,
     observed_time_unix_nano |-> 2,
     severity_number |-> 9,
     severity_text |-> "info",
     body |-> "log body",
     attributes |-> << KeyValue("attr_key", "attr_val") >>,
     dropped_attributes_count |-> 3,
     flags |-> 4,
     trace_id |-> str_into_hex_bytes("4ac52aadf321c2e531db005df08792f5"),
     span_id |-> str_into_hex_bytes("0b9e4bda2a55530d")]

\* The Resource of receive_grpc_logs.
TestResource == << KeyValue("res_key", "res_val") >>

\* The ExportLogsServiceRequest of receive_grpc_logs.
TestRequest ==
    [resource_logs |->
        << [resource |-> TestResource,
            scope_logs |-> << [log_records |-> << TestLogRecord >>] >>] >>]

\* expect_event of receive_grpc_logs.
expect_event ==
    [attributes |-> vec_into_btmap(<< KeyValue("attr_key", "attr_val") >>),
     resources |-> vec_into_btmap(<< KeyValue("res_key", "res_val") >>),
     message |-> "log body",
     trace_id |-> "4ac52aadf321c2e531db005df08792f5",
     span_id |-> "0b9e4bda2a55530d",
     severity_number |-> 9,
     severity_text |-> "info",
     flags |-> 4,
     dropped_attributes_count |-> 3,
     timestamp |-> timestamp_nanos(1),
     observed_timestamp |-> timestamp_nanos(2)]

\* A second record, every field different from TestLogRecord.
OtherLogRecord ==
    [time_unix_nano |-> 1500000000,
     observed_time_unix_nano |-> 2000000007,
     severity_number |-> 17,
     severity_text |-> "ERROR",
     body |-> "disk full",
     attributes |-> << KeyValue("unit", "sda"), KeyValue("attr_key", "x") >>,
     dropped_attributes_count |-> 0,
     flags |-> 1,
     trace_id |-> << 0, 255, 16, 171 >>,
     span_id |-> << 10, 9 >>]

\* A second resource.
OtherResource == << KeyValue("host", "a"), KeyValue("env", "b") >>

\* A third record, sharing the trace of OtherLogRecord.
DebugLogRecord ==
    [time_unix_nano |-> 999999999,
     observed_time_unix_nano |-> 1000000000,
     severity_number |-> 5,
     severity_text |-> "debug",
     body |-> "retrying",
     attributes |-> << KeyValue("attempt", "2") >>,
     dropped_attributes_count |-> 1,
     flags |-> 255,
     trace_id |-> << 0, 255, 16, 171 >>,
     span_id |-> << 222, 173, 190, 239 >>]

LogRecords == { TestLogRecord, OtherLogRecord, DebugLogRecord }

Resources == { TestResource, OtherResource }

RECURSIVE ScopeLogsSeqs(_)
\* Vec<ScopeLogs> holding n log records in all, no group empty.
ScopeLogsSeqs(n) ==
    IF n = 0 THEN { << >> }
    ELSE UNION { { << [log_records |-> r] >> \o t :
                     r \in [1..k -> LogRecords], t \in ScopeLogsSeqs(n - k) } :
                 k \in 1..n }

\* ResourceLogs holding n log records in all.
ResourceLogs(n) == [resource : Resources, scope_logs : ScopeLogsSeqs(n)]

RECURSIVE ResourceLogsSeqs(_)
\* Vec<ResourceLogs> holding n log records in all, no group empty.
ResourceLogsSeqs(n) ==
    IF n = 0 THEN { << >> }
    ELSE UNION { { << rl >> \o t :
                     rl \in ResourceLogs(k), t \in ResourceLogsSeqs(n - k) } :
                 k \in 1..n }

\* Export requests holding 1..MaxLogRecords log records.
ExportLogsServiceRequest ==
    UNION { [resource_logs : ResourceLogsSeqs(n)] : n \in 1..MaxLogRecords }

RECURSIVE Concat(_)
\* Concatenation of a sequence of sequences.
Concat(seqs) == IF seqs = << >> THEN << >> ELSE Head(seqs) \o Concat(Tail(seqs))

\* Mutant: the digits are written in upper case.
RECURSIVE hex_encode_upper(_)
hex_encode_upper(bytes) ==
    IF bytes = << >> THEN ""
    ELSE SubSeq(HexUpper, (Head(bytes) \div 16) + 1, (Head(bytes) \div 16) + 1)
         \o SubSeq(HexUpper, (Head(bytes) % 16) + 1, (Head(bytes) % 16) + 1)
         \o hex_encode_upper(Tail(bytes))

RECURSIVE hex_encode(_)
\* Lowercase hexadecimal encoding of raw bytes, two digits per byte.
hex_encode(bytes) ==
    IF bytes = << >> THEN ""
    ELSE SubSeq(HexLower, (Head(bytes) \div 16) + 1, (Head(bytes) \div 16) + 1)
         \o SubSeq(HexLower, (Head(bytes) % 16) + 1, (Head(bytes) % 16) + 1)
         \o hex_encode(Tail(bytes))

\* One log record of a resource group as a LogEvent (field mapping rules).
log_record_into_event(resource, rec) ==
    [resources |-> vec_into_btmap(resource),
     attributes |-> vec_into_btmap(rec.attributes),
     message |-> rec.body,
     timestamp |-> timestamp_nanos(rec.time_unix_nano),
     observed_timestamp |-> timestamp_nanos(rec.observed_time_unix_nano),
     severity_number |-> rec.severity_number,
     severity_text |-> rec.severity_text,
     flags |-> rec.flags,
     dropped_attributes_count |-> rec.dropped_attributes_count,
     trace_id |-> hex_encode(rec.trace_id),
     span_id |-> hex_encode(rec.span_id)]

\* The events of one resource group, scope by scope, record by record.
resource_logs_into_events(rl) ==
    Concat([i \in 1..Len(rl.scope_logs) |->
        [j \in 1..Len(rl.scope_logs[i].log_records) |->
            log_record_into_event(rl.resource, rl.scope_logs[i].log_records[j])]])

\* The events of one export request, in request order.
request_into_events(req) ==
    Concat([i \in 1..Len(req.resource_logs) |->
        resource_logs_into_events(req.resource_logs[i])])

(* ---------------------------------------------------------------------- *)
(* State                                                                   *)
(* ---------------------------------------------------------------------- *)

VARIABLES
    initial,      \* the accumulator as constructed (`a` of test_append)
    acc,          \* the accumulator (`self` of the append calls)
    inputs,       \* the Options merged into acc so far, in call order
    errors,       \* the caller's error list (`errors` of test_append)
    ret,          \* value returned by the latest call: Some(namespace) after
                  \* log_namespace(), None after append() and at start
    request,      \* Some(request the client exported), None before
    logs_output,  \* events waiting on the LOGS output of the SourceSender
    output        \* Some(events collect_ready returned), None before

vars == << initial, acc, inputs, errors, ret, request, logs_output, output >>

schema_vars == << initial, acc, inputs, errors, ret >>

otel_vars == << request, logs_output, output >>

\* new_source(EventStatus::Delivered): a sender with an empty LOGS output.
new_source ==
    /\ request = None
    /\ logs_output = << >>
    /\ output = None

Init ==
    /\ initial \in Options
    /\ acc = initial
    /\ inputs = << >>
    /\ errors = << >>          \* let mut errors = vec![]
    /\ ret = None
    /\ new_source

\* a.append(b, &mut errors)
CallAppend(with) ==
    /\ Len(inputs) < MaxInputs
    /\ LET r == append(acc, with, errors)
       IN /\ acc' = r.self
          /\ errors' = r.errors
    /\ inputs' = Append(inputs, with)
    /\ ret' = None
    /\ UNCHANGED initial
    /\ UNCHANGED otel_vars

\* acc.log_namespace()
CallLogNamespace ==
    /\ ret' = Some(log_namespace(acc))
    /\ UNCHANGED << initial, acc, inputs, errors >>
    /\ UNCHANGED otel_vars

Next ==
    \/ \E with \in Options : CallAppend(with)
    \/ CallLogNamespace

Spec == Init /\ [][Next]_vars

\* The source under test, with default schema options.
InitOtel ==
    /\ initial = Default
    /\ acc = initial
    /\ inputs = << >>
    /\ errors = << >>
    /\ ret = None
    /\ new_source

\* client.export(req).await: the source decodes the request and sends one
\* event per log record to the LOGS output.
Export(req) ==
    /\ request = None
    /\ request' = Some(req)
    /\ logs_output' = logs_output \o request_into_events(req)
    /\ UNCHANGED output
    /\ UNCHANGED schema_vars

\* test_util::collect_ready(logs_output).await
CollectReady ==
    /\ request # None
    /\ output = None
    /\ output' = Some(logs_output)
    /\ logs_output' = << >>
    /\ UNCHANGED request
    /\ UNCHANGED schema_vars

NextOtel ==
    \/ \E req \in ExportLogsServiceRequest : Export(req)
    \/ CollectReady

SpecOtel == InitOtel /\ [][NextOtel]_vars

(* ---------------------------------------------------------------------- *)
(* Vocabulary of the properties                                            *)
(* ---------------------------------------------------------------------- *)

\* The step is one call of append.
IsAppendStep == Len(inputs') = Len(inputs) + 1

\* The argument `with` of the append call made by the step.
WithArg == inputs'[Len(inputs')]

\* Both sides are explicit and differ, before the call.
ConflictBefore ==
    /\ IsAppendStep
    /\ acc.log_namespace # None
    /\ WithArg.log_namespace # None
    /\ acc.log_namespace # WithArg.log_namespace

\* The accumulator's initial value followed by everything merged into it.
Merged == << initial >> \o inputs

\* Namespace an Option<bool> reads as.
Resolved(o) == IF o = << TRUE >> THEN "Vector" ELSE "Legacy"

RECURSIVE FirstExplicit(_)
\* First Some value of the log_namespace fields of a sequence of Options.
FirstExplicit(seq) ==
    IF seq = << >> THEN None
    ELSE IF Head(seq).log_namespace # None THEN Head(seq).log_namespace
    ELSE FirstExplicit(Tail(seq))

RECURSIVE LastExplicit(_)
\* Last Some value of the log_namespace fields of a sequence of Options.
LastExplicit(seq) ==
    IF seq = << >> THEN None
    ELSE IF seq[Len(seq)].log_namespace # None THEN seq[Len(seq)].log_namespace
    ELSE LastExplicit(SubSeq(seq, 1, Len(seq) - 1))

\* Number of merge steps i whose two sides were explicit and different.
ConflictingSteps ==
    Cardinality({ i \in 1..Len(inputs) :
        LET before == LastExplicit(SubSeq(Merged, 1, i))
        IN /\ before # None
           /\ inputs[i].log_namespace # None
           /\ before # inputs[i].log_namespace })

\* All explicit log_namespace values of a sequence of Options are equal.
AllExplicitEqual(seq) ==
    \A i, j \in 1..Len(seq) :
        (seq[i].log_namespace # None /\ seq[j].log_namespace # None)
            => seq[i].log_namespace = seq[j].log_namespace

\* seq reordered by the permutation p of its indices.
Reorder(seq, p) == [i \in 1..Len(seq) |-> seq[p[i]]]

RECURSIVE FoldAppend(_, _, _)
\* a.append(seq[1], errs); a.append(seq[2], errs); ...
FoldAppend(a, seq, errs) ==
    IF seq = << >> THEN [self |-> a, errors |-> errs]
    ELSE LET r == append(a, Head(seq), errs)
         IN FoldAppend(r.self, Tail(seq), r.errors)

RECURSIVE Groupings(_)
\* Results of merging a non-empty sequence under every parenthesisation.
Groupings(seq) ==
    IF Len(seq) = 1 THEN { seq[1] }
    ELSE UNION { { append(l, r, << >>).self :
                     l \in Groupings(SubSeq(seq, 1, k)),
                     r \in Groupings(SubSeq(seq, k + 1, Len(seq))) } :
                 k \in 1..(Len(seq) - 1) }

(* ---------------------------------------------------------------------- *)
(* C1                                                                      *)
(* ---------------------------------------------------------------------- *)

\* C1 as stated: when both sides have an explicit log_namespace and the two
\* differ, append leaves the error list non-empty and leaves
\* self.log_namespace as it was before the call.
C1_LeftUnchanged ==
    [][ConflictBefore =>
          /\ errors' # << >>
          /\ acc'.log_namespace = acc.log_namespace]_vars

\* C1 amended: when both sides have an explicit log_namespace and the two
\* differ, append leaves the error list non-empty and sets
\* self.log_namespace to the value of the other side.
C1_ConflictAdoptsOther ==
    [][ConflictBefore =>
          /\ errors' # << >>
          /\ acc'.log_namespace = WithArg.log_namespace]_vars

\* Some(false).append(Some(true)) was called: one error, Some(true) adopted.
C1_Witness ==
    /\ Len(inputs) = 1
    /\ initial.log_namespace = << FALSE >>
    /\ inputs[1].log_namespace = << TRUE >>
    /\ Len(errors) = 1
    /\ acc.log_namespace = << TRUE >>

(* ---------------------------------------------------------------------- *)
(* C2                                                                      *)
(* ---------------------------------------------------------------------- *)

\* C2: when exactly one of self and other has an explicit log_namespace,
\* append adds no error and self.log_namespace ends as that explicit value.
C2_OneSideExplicit ==
    [][(IsAppendStep /\
        ((acc.log_namespace = None) # (WithArg.log_namespace = None))) =>
          /\ errors' = errors
          /\ acc'.log_namespace =
                IF acc.log_namespace # None THEN acc.log_namespace
                ELSE WithArg.log_namespace]_vars

\* None.append(Some(true)) was called: Some(true) adopted, no error.
C2_Witness ==
    /\ Len(inputs) = 1
    /\ initial.log_namespace = None
    /\ inputs[1].log_namespace = << TRUE >>
    /\ acc.log_namespace = << TRUE >>
    /\ errors = << >>

(* ---------------------------------------------------------------------- *)
(* C3                                                                      *)
(* ---------------------------------------------------------------------- *)

\* C3: the accumulator's enabled (validation) is the OR of the enabled
\* (validation) flags of its initial value and of all merged inputs; the
\* same two values result from every permutation and every grouping of the
\* inputs, with or without a reported conflict.
C3_FlagsAreOr ==
    LET anyEnabled == \E i \in 1..Len(Merged) : Merged[i].enabled
        anyValidation == \E i \in 1..Len(Merged) : Merged[i].validation
    IN /\ acc.enabled = anyEnabled
       /\ acc.validation = anyValidation
       /\ \A p \in Permutations(1..Len(Merged)) :
            \A g \in Groupings(Reorder(Merged, p)) :
                /\ g.enabled = anyEnabled
                /\ g.validation = anyValidation

\* A flag set only by the first input survives a later conflicting merge.
C3_Witness ==
    /\ Len(inputs) >= 2
    /\ ~initial.enabled /\ inputs[1].enabled /\ ~inputs[2].enabled
    /\ ~initial.validation /\ ~inputs[1].validation /\ inputs[2].validation
    /\ errors # << >>
    /\ acc.enabled /\ acc.validation

(* ---------------------------------------------------------------------- *)
(* C4                                                                      *)
(* ---------------------------------------------------------------------- *)

\* C4 as stated: after every step the accumulator's log_namespace is the
\* first explicit value met so far, the accumulator's initial value first.
C4_FirstSetterWins == acc.log_namespace = FirstExplicit(Merged)

\* C4 amended: after every step the accumulator's log_namespace is the
\* last explicit value met so far (a later conflicting setter overwrites
\* it while its conflict is reported); with no explicit value it is unset.
C4_LastSetterWins == acc.log_namespace = LastExplicit(Merged)

\* A later conflicting setter has overwritten the first explicit value.
C4_Witness ==
    /\ Len(inputs) >= 2
    /\ initial.log_namespace = << TRUE >>
    /\ inputs[2].log_namespace = << FALSE >>
    /\ errors # << >>
    /\ acc.log_namespace = << FALSE >>

(* ---------------------------------------------------------------------- *)
(* C5                                                                      *)
(* ---------------------------------------------------------------------- *)

\* C5: append keeps the entries already in errors as they are, adds exactly
\* one entry at the end when both log_namespace values are explicit and
\* differ and none otherwise; so the list holds one entry per conflicting
\* merge step.
C5_ErrorsAccumulate ==
    [][IsAppendStep =>
          /\ SubSeq(errors', 1, Len(errors)) = errors
          /\ Len(errors') = Len(errors) + (IF ConflictBefore THEN 1 ELSE 0)
          /\ Len(errors') = ConflictingSteps']_vars

\* Two merge steps conflicted and both conflicts are in the list.
C5_Witness ==
    /\ Len(inputs) >= 2
    /\ Len(errors) >= 2

(* ---------------------------------------------------------------------- *)
(* C6                                                                      *)
(* ---------------------------------------------------------------------- *)

\* C6: log_namespace() is defined for every Options and returns Legacy or
\* Vector: Legacy when log_namespace is unset, Vector for Some(true) and
\* Legacy for Some(false).
C6_ResolvedNamespace ==
    /\ log_namespace(acc) \in LogNamespace
    /\ ret # None =>
          /\ ret[1] \in LogNamespace
          /\ (acc.log_namespace = None) => ret[1] = "Legacy"
          /\ (acc.log_namespace = << TRUE >>) => ret[1] = "Vector"
          /\ (acc.log_namespace = << FALSE >>) => ret[1] = "Legacy"

\* log_namespace() was called on an Options with log_namespace unset.
C6_Witness ==
    /\ acc.log_namespace = None
    /\ ret = << "Legacy" >>

(* ---------------------------------------------------------------------- *)
(* C8                                                                      *)
(* ---------------------------------------------------------------------- *)

\* C8: the message of a reported conflict names the resolved namespace of
\* self as it was before the call, then the resolved namespace of other;
\* the two named values differ (one Legacy, one Vector).
C8_MessageNamesBothSides ==
    [][ConflictBefore =>
          LET msg == errors'[Len(errors')]
          IN /\ msg[2] = Resolved(acc.log_namespace)
             /\ msg[4] = Resolved(WithArg.log_namespace)
             /\ msg[2] # msg[4]
             /\ { msg[2], msg[4] } = { "Legacy", "Vector" }]_vars

\* Some(false).append(Some(true)) reported "Both Legacy and Vector".
C8_Witness ==
    /\ initial.log_namespace = << FALSE >>
    /\ Len(inputs) >= 1
    /\ inputs[1].log_namespace = << TRUE >>
    /\ errors # << >>
    /\ errors[1][2] = "Legacy"
    /\ errors[1][4] = "Vector"

(* ---------------------------------------------------------------------- *)
(* C9                                                                      *)
(* ---------------------------------------------------------------------- *)

\* C9: merging a sequence into a default accumulator with an empty error
\* list leaves the list empty iff all explicit log_namespace values of the
\* sequence are equal, whatever the order of the sequence.
C9_EmptyIffAllEqual ==
    initial = Default =>
        /\ (errors = << >>) <=> AllExplicitEqual(inputs)
        /\ \A p \in Permutations(1..Len(inputs)) :
              (FoldAppend(Default, Reorder(inputs, p), << >>).errors = << >>)
                  <=> (errors = << >>)

\* Some(false) then Some(true) merged into the default: a conflict.
C9_Witness ==
    /\ initial = Default
    /\ Len(inputs) >= 2
    /\ inputs[1].log_namespace = << FALSE >>
    /\ inputs[2].log_namespace = << TRUE >>
    /\ errors # << >>

(* ---------------------------------------------------------------------- *)
(* C10                                                                     *)
(* ---------------------------------------------------------------------- *)

\* C10: x.append(default, errors) leaves x and errors unchanged, and
\* default.append(x, errors) makes the accumulator x and leaves errors
\* unchanged.
C10_DefaultIsIdentity ==
    [][IsAppendStep =>
          /\ (WithArg = Default) => (acc' = acc /\ errors' = errors)
          /\ (acc = Default) => (acc' = WithArg /\ errors' = errors)]_vars

\* default.append(x) gave x, and then x.append(default) left x.
C10_Witness ==
    /\ initial = Default
    /\ Len(inputs) >= 2
    /\ inputs[1].enabled /\ inputs[1].log_namespace = << TRUE >>
    /\ inputs[2] = Default
    /\ acc = inputs[1]
    /\ errors = << >>

(* ---------------------------------------------------------------------- *)
(* C7                                                                      *)
(* ---------------------------------------------------------------------- *)

\* The events the LOGS output has carried: collected, then still queued.
EventsSeen == (IF output = None THEN << >> ELSE output[1]) \o logs_output

RECURSIVE RecordsOf(_, _, _)
\* The (resource, record) pairs of a request from group g, scope s on, in
\* request order.
RecordsOf(req, g, s) ==
    IF g > Len(req.resource_logs) THEN << >>
    ELSE IF s > Len(req.resource_logs[g].scope_logs) THEN RecordsOf(req, g + 1, 1)
    ELSE [j \in 1..Len(req.resource_logs[g].scope_logs[s].log_records) |->
             [resource |-> req.resource_logs[g].resource,
              record |-> req.resource_logs[g].scope_logs[s].log_records[j]]]
         \o RecordsOf(req, g, s + 1)

\* s is made of lowercase hexadecimal digits only.
IsLowerHex(s) ==
    \A i \in 1..Len(s) :
        \E d \in 1..16 : SubSeq(s, i, i) = SubSeq(HexLower, d, d)

\* m is the object whose entries are exactly the key/value pairs kvs.
IsObjectOf(m, kvs) ==
    /\ DOMAIN m = { kvs[i].key : i \in 1..Len(kvs) }
    /\ \A k \in DOMAIN m : \E i \in 1..Len(kvs) : kvs[i].key = k /\ kvs[i].value = m[k]

\* C7: every log record of an export request becomes exactly one LogEvent
\* on the logs output, whose fields are exactly resources, attributes,
\* message, timestamp, observed_timestamp (instants that many nanoseconds
\* after the epoch), severity_number, severity_text, flags,
\* dropped_attributes_count (unchanged) and trace_id, span_id (lowercase
\* hexadecimal encoding of the raw bytes); the request of
\* receive_grpc_logs yields expect_event.
C7_OneEventPerRecord ==
    request # None =>
        LET recs == RecordsOf(request[1], 1, 1)
        IN /\ Len(EventsSeen) = Len(recs)
           /\ \A i \in 1..Len(recs) :
                LET ev == EventsSeen[i]
                    rec == recs[i].record
                IN /\ DOMAIN ev = { "resources", "attributes", "message",
                                    "timestamp", "observed_timestamp",
                                    "severity_number", "severity_text", "flags",
                                    "dropped_attributes_count", "trace_id",
                                    "span_id" }
                   /\ IsObjectOf(ev.resources, recs[i].resource)
                   /\ IsObjectOf(ev.attributes, rec.attributes)
                   /\ ev.message = rec.body
                   /\ ev.timestamp.secs * 1000000000 + ev.timestamp.nsecs
                        = rec.time_unix_nano
                   /\ ev.timestamp.nsecs \in 0..999999999
                   /\ ev.observed_timestamp.secs * 1000000000
                        + ev.observed_timestamp.nsecs = rec.observed_time_unix_nano
                   /\ ev.observed_timestamp.nsecs \in 0..999999999
                   /\ ev.severity_number = rec.severity_number
                   /\ ev.severity_text = rec.severity_text
                   /\ ev.flags = rec.flags
                   /\ ev.dropped_attributes_count = rec.dropped_attributes_count
                   /\ IsLowerHex(ev.trace_id)
                   /\ str_into_hex_bytes(ev.trace_id) = rec.trace_id
                   /\ IsLowerHex(ev.span_id)
                   /\ str_into_hex_bytes(ev.span_id) = rec.span_id
           /\ (request[1] = TestRequest) => (EventsSeen = << expect_event >>)

\* receive_grpc_logs: the test request was exported and exactly
\* expect_event was collected from the logs output.
C7_Witness ==
    /\ request = << TestRequest >>
    /\ output = << << expect_event >> >>
    /\ logs_output = << >>

====
